---- MODULE Spec2Model ----
(***************************************************************************)
(* Sidekick AI: the background service worker (src/src/background.js and   *)
(* its earlier build src/unnamed/part_000), the persisted store it shares  *)
(* with the options page (src/unnamed/part_001), and the action ranking.   *)
(*                                                                         *)
(* A selection text is a sequence of lines, a line a sequence of           *)
(* whitespace-separated words.  The regular expressions of the suggesters  *)
(* are evaluated word by word: for every word of the vocabulary the sets   *)
(* below say which patterns the word's characters match.                   *)
(***************************************************************************)
EXTENDS Integers, Sequences, FiniteSets, Bags, TLC

----------------------------------------------------------------------------
(* Bounds *)

MaxClicks == 2      \* clicks of one statistics key are counted up to here
MaxInflight == 1    \* handlers awaiting the remote service at one time
MaxQueue == 1       \* storage writes issued and not yet applied
MaxCalls == 2       \* sendMessage calls of one page session
MaxTimers == 1      \* removal timers of one surface pending at one time
MaxNotes == 1       \* notifications on the page at one time

----------------------------------------------------------------------------
(* Actions: {id, label, icon, description}; id and label are kept *)

Act(id, label) == [id |-> id, label |-> label]

ActionIds(actions) == [i \in DOMAIN actions |-> actions[i].id]

\* the quadruple pushed or returned by a suggester, from its ids and labels
\* a list of four whose last action repeats the first
QuadRepeating(a, b, c, d) == <<Act(a[1], a[2]), Act(b[1], b[2]), Act(c[1], c[2]), Act(a[1], a[2])>>

Quad(a, b, c, d) == <<Act(a[1], a[2]), Act(b[1], b[2]), Act(c[1], c[2]), Act(d[1], d[2])>>

----------------------------------------------------------------------------
(* Words and the patterns they match *)

\* \b(function|class|const|let|var|if|for|while|import|export|return|def|public|private|void)\b
KeywordsFallback ==
    {"function", "class", "const", "let", "var", "if", "for", "while", "import",
     "export", "return", "def", "public", "private", "void"}

\* \b(function|class|const|let|var|if|for|while|import|export|return)\b
KeywordsDefault ==
    {"function", "class", "const", "let", "var", "if", "for", "while", "import",
     "export", "return"}

\* words of the vocabulary holding one of { } [ ] ( ) ; or => == && ||
StructuralFallback == {"foo()", "{", "}", "1;"}

\* words of the vocabulary holding one of the characters { } [ ] ; ( ) = >
StructuralDefault == {"foo()", "{", "}", "1;", "x=1"}

\* words whose lower case holds \b(dear|hi|hello|regards|sincerely|best|thanks)\b
\* or @[a-zA-Z0-9.-]+\.[a-zA-Z]{2,}
SalutationFallback == {"Dear", "thanks", "me@corp.io"}

\* words that begin, ignoring case, with dear|hi|hello|regards|sincerely
SalutationDefault == {"Dear", "history"}

\* words matching ^\d+$
IntegerWords == {"7", "12"}

\* words holding a digit
DigitWords == {"7", "12", "1;", "x=1", "1."}

\* one-character words of the class [\d\-\*•]
BulletFallback == {"7", "-", "*"}

\* one-character words of the class [\d\-\*]
BulletDefault == {"7", "-", "*"}

\* words beginning with ^\d+\. or ^[a-z]\) or ^[A-Z]\)
EnumeratorWords == {"1."}

\* words holding ?
QuestionWords == {"why?"}

----------------------------------------------------------------------------
(* Texts: what String.prototype.split sees *)

RECURSIVE Flatten(_)
Flatten(lines) ==
    IF lines = <<>> THEN <<>> ELSE Head(lines) \o Flatten(Tail(lines))

\* selectedText.split(/\s+/): the selection is trimmed and non-empty, so
\* every piece is a word
Words(text) == Flatten(text)

\* selectedText.split('\n')
Lines(text) == text

LongLine == [i \in 1..51 |-> "word"]

CodeText == << <<"function", "foo()", "{", "return", "1;", "}">> >>
DefText == << <<"def", "run">> >>
AssignText == << <<"x=1">> >>
EmailText == << <<"Dear", "team">> >>
ThanksText == << <<"many", "thanks">> >>
HistoryText == << <<"history", "notes">> >>
NumbersText == << <<"7", "12", "7", "12">> >>
PriceText == << <<"costs", "12">> >>
ListText == << <<"-", "milk">>, <<"-", "eggs">> >>
LinesText == << <<"milk">>, <<"eggs">>, <<"tea">>, <<"salt">> >>
QuestionText == << <<"why?">> >>
LongText == << LongLine >>
PlainText == << <<"plain", "words">> >>

Texts ==
    {CodeText, DefText, AssignText, EmailText, ThanksText, HistoryText,
     NumbersText, PriceText, ListText, LinesText, QuestionText, LongText,
     PlainText}

PlainUrl == "https://example.com/post"

Urls ==
    {PlainUrl, "https://github.com/o/r", "https://mail.google.com/mail",
     "https://news.example.com/mailbag", "https://outlook.com/inbox"}

\* url.includes(needle), for the needles the suggesters use
UrlIncludes(url, needle) ==
    CASE needle = "mail" ->
            url \in {"https://mail.google.com/mail", "https://news.example.com/mailbag"}
      [] needle = "gmail" -> FALSE
      [] needle = "github.com" -> url = "https://github.com/o/r"
      [] needle = "stackoverflow.com" -> FALSE
      [] needle = "mail.google.com" -> url = "https://mail.google.com/mail"
      [] needle = "outlook.com" -> url = "https://outlook.com/inbox"
      [] OTHER -> FALSE

----------------------------------------------------------------------------
(* getSmartFallbackActions: the text heuristics of background.js *)

\* the first piece of the split: '' for the empty text
FirstWord(text) == IF Words(text) = <<>> THEN "" ELSE Words(text)[1]

AnyWord(text, S) == LET w == Words(text) IN \E i \in DOMAIN w : w[i] \in S

CountWords(text, S) == LET w == Words(text) IN Cardinality({i \in DOMAIN w : w[i] \in S})

\* the signals computed at the top of getSmartFallbackActions
FallbackSignals(text, url) ==
    [isCode |-> AnyWord(text, KeywordsFallback \cup StructuralFallback),
     isEmail |-> \/ AnyWord(text, SalutationFallback)
                 \/ UrlIncludes(url, "mail")
                 \/ UrlIncludes(url, "gmail"),
     hasNumbers |-> AnyWord(text, DigitWords) /\ CountWords(text, IntegerWords) > 3,
     isList |-> \/ (Len(Words(text)) > 1 /\ FirstWord(text) \in BulletFallback)
                \/ FirstWord(text) \in EnumeratorWords
                \/ Len(Lines(text)) > 3,
     isLongText |-> Len(Words(text)) > 50]

FallbackCode ==
    Quad(<<"explain_code", "Explain Code">>, <<"find_issues", "Find Issues">>,
         <<"add_comments", "Add Comments">>, <<"refactor", "Refactor">>)
FallbackEmail ==
    Quad(<<"draft_reply", "Draft Reply">>, <<"summarize", "Summarize">>,
         <<"change_tone", "Change Tone">>, <<"action_items", "Action Items">>)
FallbackNumbers ==
    Quad(<<"analyze_data", "Analyze Data">>, <<"create_table", "Format Table">>,
         <<"calculate", "Calculate">>, <<"visualize", "Visualize">>)
FallbackList ==
    Quad(<<"organize", "Organize">>, <<"prioritize", "Prioritize">>,
         <<"expand", "Expand Items">>, <<"convert_tasks", "Make Tasks">>)
FallbackLongText ==
    Quad(<<"summarize", "Summarize">>, <<"key_points", "Key Points">>,
         <<"simplify", "Simplify">>, <<"questions", "Questions">>)
FallbackGeneral ==
    Quad(<<"summarize", "Summarize">>, <<"improve", "Improve">>,
         <<"translate", "Translate">>, <<"explain", "Explain">>)

\* a chain that tests the list signal before the others
FallbackChoiceListFirst(sig) ==
    IF sig.isList THEN FallbackList
    ELSE IF sig.isCode THEN FallbackCode
    ELSE IF sig.isEmail THEN FallbackEmail
    ELSE IF sig.hasNumbers THEN FallbackNumbers
    ELSE IF sig.isLongText THEN FallbackLongText
    ELSE FallbackGeneral

\* the chain of if statements: the first signal that holds decides
FallbackChoice(sig) ==
    IF sig.isCode THEN FallbackCode
    ELSE IF sig.isEmail THEN FallbackEmail
    ELSE IF sig.hasNumbers THEN FallbackNumbers
    ELSE IF sig.isList THEN FallbackList
    ELSE IF sig.isLongText THEN FallbackLongText
    ELSE FallbackGeneral

getSmartFallbackActions(text, url) == FallbackChoice(FallbackSignals(text, url))

getFallbackActions ==
    Quad(<<"summarize", "Summarize">>, <<"explain", "Explain">>,
         <<"improve", "Improve">>, <<"key_points", "Key Points">>)

----------------------------------------------------------------------------
(* getElementFallbackActions: the element heuristics of background.js *)

\* context.type as extractElementContext of the content script sets it
ElementTypes ==
    {"image", "video", "table", "canvas", "chart", "interactive", "form",
     "numeric", "list", "unknown"}

getElementFallbackActions(elementType) ==
    CASE elementType = "image" ->
            Quad(<<"describe_image", "Describe Image">>, <<"extract_text", "Extract Text">>,
                 <<"find_similar", "Find Similar">>, <<"analyze_content", "Analyze Content">>)
      [] elementType \in {"chart", "canvas"} ->
            Quad(<<"explain_chart", "Explain Chart">>, <<"extract_data", "Extract Data">>,
                 <<"analyze_trends", "Analyze Trends">>, <<"summarize_insights", "Key Insights">>)
      [] elementType = "table" ->
            Quad(<<"summarize_table", "Summarize Data">>, <<"extract_csv", "Export CSV">>,
                 <<"analyze_columns", "Analyze Columns">>, <<"find_patterns", "Find Patterns">>)
      [] elementType = "numeric" ->
            Quad(<<"calculate", "Calculate">>, <<"convert_units", "Convert Units">>,
                 <<"analyze_values", "Analyze Values">>, <<"compare", "Compare">>)
      [] elementType = "interactive" ->
            Quad(<<"explain_action", "Explain Action">>, <<"find_alternatives", "Alternatives">>,
                 <<"automate", "Automate">>, <<"analyze_behavior", "Analyze">>)
      [] elementType = "form" ->
            Quad(<<"explain_form", "Explain Form">>, <<"validate_fields", "Validate">>,
                 <<"suggest_values", "Suggest Values">>, <<"extract_structure", "Extract Structure">>)
      [] OTHER ->
            Quad(<<"explain_element", "Explain Element">>, <<"extract_info", "Extract Info">>,
                 <<"analyze_context", "Analyze Context">>, <<"suggest_actions", "Suggest Actions">>)

----------------------------------------------------------------------------
(* getSmartDefaultActions: the text heuristics of the earlier build *)

\* line i begins with a one-character bullet followed by white space (a
\* blank or the line's end): /^[\d\-\*]\s|^\s*[\-\*]\s/m and /\n\s*[\d\-\*]\s/m
BulletLine(text, i) ==
    /\ Lines(text)[i][1] \in BulletDefault
    /\ (Len(Lines(text)[i]) > 1 \/ i < Len(Lines(text)))

DefaultSignals(text, url) ==
    [isCode |-> \/ AnyWord(text, KeywordsDefault)
                \/ AnyWord(text, StructuralDefault)
                \/ UrlIncludes(url, "github.com")
                \/ UrlIncludes(url, "stackoverflow.com"),
     isEmail |-> \/ UrlIncludes(url, "mail.google.com")
                 \/ UrlIncludes(url, "outlook.com")
                 \/ FirstWord(text) \in SalutationDefault,
     isList |-> \E i \in DOMAIN Lines(text) : BulletLine(text, i),
     isLongText |-> Len(Words(text)) > 50,
     hasNumbers |-> AnyWord(text, DigitWords),
     isQuestion |-> AnyWord(text, QuestionWords)]

DefaultCode ==
    Quad(<<"explain_code", "Explain Code">>, <<"find_bugs", "Find Bugs">>,
         <<"add_comments", "Add Comments">>, <<"improve_code", "Improve Code">>)
DefaultEmail ==
    Quad(<<"make_professional", "Professional Tone">>, <<"make_friendly", "Friendly Tone">>,
         <<"create_reply", "Draft Reply">>, <<"add_structure", "Add Structure">>)
DefaultList ==
    Quad(<<"organize_list", "Organize List">>, <<"expand_items", "Expand Items">>,
         <<"create_table", "Make Table">>, <<"prioritize", "Prioritize">>)
DefaultNumbers ==
    Quad(<<"analyze_data", "Analyze Data">>, <<"create_chart", "Chart Code">>,
         <<"calculate", "Calculate">>, <<"format_table", "Format Table">>)
DefaultQuestion ==
    Quad(<<"answer_question", "Answer">>, <<"research_topic", "Research">>,
         <<"pros_cons", "Pros & Cons">>, <<"explain_simply", "ELI5">>)
DefaultLongText ==
    Quad(<<"summarize", "Summarize">>, <<"key_points", "Key Points">>,
         <<"create_outline", "Make Outline">>, <<"simplify", "Simplify">>)
DefaultGeneric ==
    Quad(<<"improve_writing", "Improve">>, <<"translate", "Translate">>,
         <<"expand", "Expand">>, <<"summarize", "Summarize">>)

\* the if / else if chain that fills the actions array
DefaultChoice(sig) ==
    IF sig.isCode THEN DefaultCode
    ELSE IF sig.isEmail THEN DefaultEmail
    ELSE IF sig.isList THEN DefaultList
    ELSE IF sig.hasNumbers /\ ~sig.isLongText THEN DefaultNumbers
    ELSE IF sig.isQuestion THEN DefaultQuestion
    ELSE IF sig.isLongText THEN DefaultLongText
    ELSE DefaultGeneric

getDefaultActions ==
    Quad(<<"summarize", "Summarize">>, <<"explain", "Explain">>,
         <<"improve", "Improve">>, <<"key_points", "Key Points">>)

----------------------------------------------------------------------------
(* Usage statistics: actionId -> {clicks, lastUsed} *)

NoStats == [k \in {} |-> [clicks |-> 0, lastUsed |-> "null"]]

\* new Date().toISOString()
IsoNow == "iso"

\* (actionUsageStats[id] || { clicks: 0 }).clicks
ClicksOf(stats, id) == IF id \in DOMAIN stats THEN stats[id].clicks ELSE 0

\* the statistics object after updateActionStats(actionId) has changed it
Bumped(stats, actionId) ==
    [k \in DOMAIN stats \cup {actionId} |->
        IF k = actionId
        THEN [clicks |-> ClicksOf(stats, actionId) + 1, lastUsed |-> IsoNow]
        ELSE stats[k]]

----------------------------------------------------------------------------
(* sortActionsByUsage: Array.prototype.sort, which is stable, with the    *)
(* comparator bStats.clicks - aStats.clicks                               *)

\* an array item that is null: reading its id throws
NullItem == [id |-> "null", label |-> "null"]

\* the comparator with its operands exchanged: aStats.clicks - bStats.clicks
compareAscending(a, b, stats) == ClicksOf(stats, a.id) - ClicksOf(stats, b.id)

\* (a, b) => bStats.clicks - aStats.clicks
compareByUsage(a, b, stats) == ClicksOf(stats, b.id) - ClicksOf(stats, a.id)

\* x goes behind every item the comparator does not put after it
RECURSIVE InsertByUsage(_, _, _)
InsertByUsage(sorted, x, stats) ==
    IF sorted = <<>> THEN <<x>>
    ELSE IF compareByUsage(Head(sorted), x, stats) <= 0
         THEN <<Head(sorted)>> \o InsertByUsage(Tail(sorted), x, stats)
         ELSE <<x>> \o sorted

RECURSIVE SortFrom(_, _, _)
SortFrom(sorted, rest, stats) ==
    IF rest = <<>> THEN sorted
    ELSE SortFrom(InsertByUsage(sorted, Head(rest), stats), Tail(rest), stats)

sortActionsByUsage(actions, stats) == SortFrom(<<>>, actions, stats)

\* getSmartDefaultActions ends with return sortActionsByUsage(actions)
getSmartDefaultActions(text, url, stats) ==
    sortActionsByUsage(DefaultChoice(DefaultSignals(text, url)), stats)

----------------------------------------------------------------------------
(* Messages of the content script and replies of the completion service *)

NoAction == Act("", "")

Request(type, isElementAnalysis, text, url, elementType, action, actionId) ==
    [type |-> type, isElementAnalysis |-> isElementAnalysis, text |-> text,
     url |-> url, elementType |-> elementType, action |-> action,
     actionId |-> actionId]

NoRequest == Request("none", FALSE, <<>>, "", "", NoAction, "")

\* the selections and clicked elements of the sessions explored
SampleTexts == {CodeText}
SampleElements == {"image"}

\* showActionPalette: {type: 'GET_ACTIONS', context, selectedText, isElementAnalysis: false}
TextRequests ==
    {Request("GET_ACTIONS", FALSE, t, PlainUrl, "", NoAction, "") : t \in SampleTexts}

\* showElementActionPalette: {type: 'GET_ACTIONS', context, selectedText, isElementAnalysis: true}
ElementRequests ==
    {Request("GET_ACTIONS", TRUE, <<>>, PlainUrl, e, NoAction, "") : e \in SampleElements}

\* the actions whose buttons are clicked
ClickedActions == {Act("add_comments", "Add Comments")}

\* executeAction of the content script: {type: 'EXECUTE_ACTION', action: action, text, context}
ExecuteRequests ==
    {Request("EXECUTE_ACTION", FALSE, PlainText, PlainUrl, "", a, "") : a \in ClickedActions}

\* {type: 'UPDATE_STATS', action: actionId}
StatsRequests ==
    {Request("UPDATE_STATS", FALSE, <<>>, "", "", NoAction, a.id) : a \in ClickedActions}

\* what the remote call of a suggester ends in
\*   transport  fetch rejects
\*   status     response.ok is false
\*   body       response.json() rejects, or data.content[0].text throws
\*   unparsable JSON.parse(content) throws
\*   nonarray   the text parses to something that is no array
\*   array      the text parses to the array `items`
Outcome(kind, items) == [kind |-> kind, items |-> items]

RemoteThree ==
    <<Act("explain", "Explain"), Act("tldr", "TL;DR"), Act("add_comments", "Add Comments")>>
RemoteFour ==
    <<Act("tldr", "TL;DR"), Act("explain", "Explain"),
      Act("add_comments", "Add Comments"), Act("refactor", "Refactor")>>
RemoteTwice ==
    <<Act("tldr", "TL;DR"), Act("explain", "Explain"),
      Act("explain", "Explain It"), Act("refactor", "Refactor")>>
RemoteWithNull ==
    <<Act("tldr", "TL;DR"), NullItem, Act("explain", "Explain"), Act("refactor", "Refactor")>>
RemoteArrays == {RemoteThree, RemoteFour, RemoteTwice, RemoteWithNull}

SuggestOutcomes ==
    {Outcome(k, <<>>) : k \in {"transport", "status", "body", "unparsable", "nonarray"}}
        \cup {Outcome("array", items) : items \in RemoteArrays}

\* what the remote call of executeAction ends in: "ok" carries the text
ExecuteOutcomes == {Outcome(k, <<>>) : k \in {"transport", "status", "body", "ok"}}

NoOutcome == Outcome("none", <<>>)

\* sendResponse(...): the reply of the listener, with the request it answers
\* and the outcome of the remote call made for it ("none": no call was made)
Response(type, req, actions, success, error, remote) ==
    [type |-> type, req |-> req, actions |-> actions, success |-> success,
     error |-> error, remote |-> remote]

NoResponse == Response("none", NoRequest, <<>>, FALSE, "", NoOutcome)

ActionsResponse(req, actions, remote) ==
    Response("actions", req, actions, FALSE, "", remote)

\* a validation that tests Array.isArray(actions) alone
AcceptsAnyArray(outcome) == outcome.kind = "array"

\* Array.isArray(actions) && actions.length === 4
AcceptedArray(outcome) == outcome.kind = "array" /\ Len(outcome.items) = 4

\* comparing the items of the array reads a.id of every item
ThrowsInSort(items) == \E i \in DOMAIN items : items[i] = NullItem

NoKeyError == "API key not configured. Please set it in the extension options."

----------------------------------------------------------------------------
(* The background service worker and the persisted store *)

VARIABLES
    build,              \* which build of the worker runs
    apiKey,             \* let apiKey
    actionUsageStats,   \* let actionUsageStats
    storedApiKey,       \* chrome.storage.sync: apiKey
    storedStats,        \* chrome.storage.sync: actionStats
    storageQueue,       \* storage calls of the worker, issued and not yet served
    inflight,           \* requests whose handler awaits the completion service
    response,           \* the last reply passed to sendResponse
    script,             \* which content script runs in the page
    cs,                 \* the content script: its globals, timers and surfaces
    selection,          \* window.getSelection().toString().trim()
    calls               \* chrome.runtime.sendMessage calls whose callback has not run

workerVars ==
    <<build, apiKey, actionUsageStats, storedApiKey, storedStats, storageQueue,
      inflight, response>>

pageVars == <<script, cs, selection, calls>>

vars == <<workerVars, pageVars>>

Current == "background.js"
Earlier == "part_000"

\* a value that is absent: a key the store does not hold, newValue of a removal
Undefined == "undefined"

SavedKey == "sk-ant-api-1"

\* the key a later save of the options page replaces it with
ReplacedKey == "sk-ant-api-2"

\* !apiKey
Falsy(v) == v \in {"", Undefined}

GetCall == [op |-> "get", stats |-> NoStats]
SetCall(stats) == [op |-> "set", stats |-> stats]

\* a bag of requests: the handlers that await the completion service
Awaiting(req) == SetToBag({req})

\* the content script of src/src/contentScript.js and the one with the
\* 10-second timer (src/unnamed/part_001, from line 441)
Script == "contentScript.js"
TimerScript == "part_001"

\* '' as a selection, null as an element
NoText == <<>>
NoTarget == ""

\* actionPalette: null, the loading palette or the palette of action buttons
\*   show       class sidekick-show
\*   disabled   the buttons are disabled (showLoadingState)
\*   indicator  the Element Analysis indicator is part of the palette
NoPalette ==
    [kind |-> "none", actions |-> <<>>, show |-> FALSE, disabled |-> FALSE,
     indicator |-> FALSE]
LoadingPalette ==
    [kind |-> "loading", actions |-> <<>>, show |-> TRUE, disabled |-> FALSE,
     indicator |-> FALSE]
ButtonPalette(actions, indicator) ==
    [kind |-> "actions", actions |-> actions, show |-> TRUE, disabled |-> FALSE,
     indicator |-> indicator]

\* resultPanel: null or the panel showing a result
NoPanel == [kind |-> "none", action |-> NoAction, show |-> FALSE]
ResultPanel(action) == [kind |-> "result", action |-> action, show |-> TRUE]

\* the globals of the content script as the script's top level leaves them,
\* with no timer pending and no notification on the page.  The flag
\* clickAnalysisMode stands for contextMode === 'element' in part_001, and
\* lastClickTarget for clickedElement.
InitialPage ==
    [selectedText |-> NoText,
     actionPalette |-> NoPalette,
     resultPanel |-> NoPanel,
     currentActions |-> <<>>,
     isLoadingActions |-> FALSE,
     clickAnalysisMode |-> FALSE,
     lastClickTarget |-> NoTarget,
     selectTimers |-> {},        \* setTimeout(..., 200) of handleTextSelection, by text
     hideTimers |-> 0,           \* setTimeout(..., 300) of hideActionPalette
     panelTimers |-> 0,          \* setTimeout(..., 300) of hideResultPanel
     notifications |-> <<>>,     \* the notifications on the page
     sent |-> 0]                 \* sendMessage calls made so far

\* the worker is started: the module's top level runs
Init ==
    /\ script = Script
    /\ cs = InitialPage
    /\ selection = NoText
    /\ calls = {}
    /\ build \in {Current, Earlier}
    /\ apiKey = ""
    /\ actionUsageStats = NoStats
    /\ storedApiKey = Undefined
    /\ storedStats = NoStats
    /\ storageQueue = <<>>
    /\ inflight = EmptyBag
    /\ response = NoResponse

\* no handler of the worker awaits anything
Idle == inflight = EmptyBag /\ storageQueue = <<>>

\* the browser stops the idle worker; the next event starts it again
WorkerRestart ==
    /\ Idle
    /\ apiKey' = ""
    /\ actionUsageStats' = NoStats
    /\ UNCHANGED <<build, storedApiKey, storedStats, storageQueue, inflight, response>>

\* onInstalled, the first event of a worker started by an install or update:
\* loadSettings issues chrome.storage.sync.get
OnInstalled ==
    /\ Idle
    /\ apiKey' = ""
    /\ actionUsageStats' = NoStats
    /\ storageQueue' = <<GetCall>>
    /\ UNCHANGED <<build, storedApiKey, storedStats, inflight, response>>

\* the store serves the oldest call of the worker; a get resumes loadSettings
StorageServe ==
    /\ storageQueue # <<>>
    /\ storageQueue' = Tail(storageQueue)
    /\ IF Head(storageQueue).op = "set"
       THEN /\ storedStats' = Head(storageQueue).stats
            /\ UNCHANGED <<apiKey, actionUsageStats>>
       ELSE /\ apiKey' = (IF Falsy(storedApiKey) THEN "" ELSE storedApiKey)
            /\ actionUsageStats' = storedStats
            /\ UNCHANGED storedStats
    /\ UNCHANGED <<build, storedApiKey, inflight, response>>

\* a save of the options page that no storage.onChanged listener observes
SaveApiKeyUnobserved ==
    /\ storedApiKey # SavedKey
    /\ storedApiKey' = SavedKey
    /\ UNCHANGED <<build, apiKey, actionUsageStats, storedStats, storageQueue, inflight, response>>

\* the options page saves a key; storage.onChanged reaches the worker
SaveApiKey ==
    /\ storedApiKey # SavedKey
    /\ storedApiKey' = SavedKey
    /\ apiKey' = SavedKey
    /\ UNCHANGED <<build, actionUsageStats, storedStats, storageQueue, inflight, response>>

\* the options page saves another key over the stored one
ReplaceApiKey ==
    /\ storedApiKey = SavedKey
    /\ storedApiKey' = ReplacedKey
    /\ apiKey' = ReplacedKey
    /\ UNCHANGED <<build, actionUsageStats, storedStats, storageQueue, inflight, response>>

\* the key leaves the synced store; storage.onChanged carries no newValue
RemoveApiKey ==
    /\ storedApiKey # Undefined
    /\ storedApiKey' = Undefined
    /\ apiKey' = Undefined
    /\ UNCHANGED <<build, actionUsageStats, storedStats, storageQueue, inflight, response>>

\* the options page: Reset Statistics, confirmed
ResetStats ==
    /\ storedStats # NoStats
    /\ storedStats' = NoStats
    /\ UNCHANGED <<build, apiKey, actionUsageStats, storedApiKey, storageQueue, inflight, response>>

\* what analyzeAndGenerate(Element)Actions returns when !apiKey
suggestWithoutKey(b, req, stats) ==
    IF b = Current
    THEN IF req.isElementAnalysis
         THEN getElementFallbackActions(req.elementType)
         ELSE getFallbackActions
    ELSE getSmartDefaultActions(req.text, req.url, stats)

\* a fallback that ignores the content
fallbackToDefault(b, req, stats) == getFallbackActions

\* the heuristic suggester a failed remote suggestion falls back to
suggestFallback(b, req, stats) ==
    IF b = Current
    THEN IF req.isElementAnalysis
         THEN getElementFallbackActions(req.elementType)
         ELSE getSmartFallbackActions(req.text, req.url)
    ELSE getSmartDefaultActions(req.text, req.url, stats)

\* what analyzeAndGenerate(Element)Actions returns once the remote call ended
suggestAfterFetch(b, req, outcome, stats) ==
    IF b = Current
    THEN IF AcceptedArray(outcome) THEN outcome.items
         ELSE suggestFallback(b, req, stats)
    ELSE IF AcceptedArray(outcome) /\ ~ThrowsInSort(outcome.items)
         THEN sortActionsByUsage(outcome.items, stats)
         ELSE suggestFallback(b, req, stats)

\* the property key updateActionStats is called with: action.id in the
\* current build; the earlier build passes request.action itself, an object
statsKey(b, action) == IF b = Current THEN action.id ELSE "[object Object]"

\* updateActionStats(actionId); within the bound on the calls queued, a write
\* may always follow the pending read of loadSettings
updateActionStats(actionId) ==
    /\ ClicksOf(actionUsageStats, actionId) < MaxClicks
    /\ Len(storageQueue) < MaxQueue \/ storageQueue = <<GetCall>>
    /\ actionUsageStats' = Bumped(actionUsageStats, actionId)
    /\ storageQueue' = Append(storageQueue, SetCall(Bumped(actionUsageStats, actionId)))

\* a GET_ACTIONS handler that calls the completion service with any key
GetActionsUnguarded(req) ==
    /\ req.isElementAnalysis => build = Current
    /\ BagCardinality(inflight) < MaxInflight
    /\ inflight' = inflight (+) Awaiting(req)
    /\ UNCHANGED response
    /\ UNCHANGED <<build, apiKey, actionUsageStats, storedApiKey, storedStats, storageQueue>>

\* onMessage, GET_ACTIONS
GetActions(req) ==
    /\ req.isElementAnalysis => build = Current
    /\ UNCHANGED <<build, apiKey, actionUsageStats, storedApiKey, storedStats, storageQueue>>
    /\ IF Falsy(apiKey)
       THEN /\ UNCHANGED inflight
            /\ response' = ActionsResponse(req, suggestWithoutKey(build, req, actionUsageStats), NoOutcome)
       ELSE /\ BagCardinality(inflight) < MaxInflight
            /\ inflight' = inflight (+) Awaiting(req)
            /\ UNCHANGED response

\* a listener whose handler ends without sendResponse when the remote call
\* gave no accepted array
SuggestDoneSilent(req, outcome) ==
    /\ BagIn(req, inflight)
    /\ req.type = "GET_ACTIONS"
    /\ response' = IF AcceptedArray(outcome)
                   THEN ActionsResponse(req,
                            suggestAfterFetch(build, req, outcome, actionUsageStats), outcome)
                   ELSE response
    /\ inflight' = inflight (-) Awaiting(req)
    /\ UNCHANGED <<build, apiKey, actionUsageStats, storedApiKey, storedStats, storageQueue>>

\* the remote call of a suggester ends; the listener replies
SuggestDone(req, outcome) ==
    /\ BagIn(req, inflight)
    /\ req.type = "GET_ACTIONS"
    /\ response' = ActionsResponse(req,
                      suggestAfterFetch(build, req, outcome, actionUsageStats), outcome)
    /\ inflight' = inflight (-) Awaiting(req)
    /\ UNCHANGED <<build, apiKey, actionUsageStats, storedApiKey, storedStats, storageQueue>>

\* an EXECUTE_ACTION handler that counts the click before it tests the key
ExecuteCountsFirst(req) ==
    /\ updateActionStats(statsKey(build, req.action))
    /\ IF Falsy(apiKey)
       THEN /\ response' = Response("execute", req, <<>>, FALSE, NoKeyError, NoOutcome)
            /\ UNCHANGED inflight
       ELSE /\ BagCardinality(inflight) < MaxInflight
            /\ inflight' = inflight (+) Awaiting(req)
            /\ UNCHANGED response
    /\ UNCHANGED <<build, apiKey, storedApiKey, storedStats>>

\* onMessage, EXECUTE_ACTION
ExecuteAction(req) ==
    /\ IF Falsy(apiKey)
       THEN /\ response' = Response("execute", req, <<>>, FALSE, NoKeyError, NoOutcome)
            /\ UNCHANGED <<actionUsageStats, storageQueue, inflight>>
       ELSE /\ BagCardinality(inflight) < MaxInflight
            /\ updateActionStats(statsKey(build, req.action))
            /\ inflight' = inflight (+) Awaiting(req)
            /\ UNCHANGED response
    /\ UNCHANGED <<build, apiKey, storedApiKey, storedStats>>

\* a worker that calls the service again when a call failed
ExecuteDoneRetrying(req, outcome) ==
    /\ BagIn(req, inflight)
    /\ req.type = "EXECUTE_ACTION"
    /\ response' = Response("execute", req, <<>>, outcome.kind = "ok",
                      IF outcome.kind = "ok" THEN "" ELSE outcome.kind, outcome)
    /\ inflight' = IF outcome.kind = "ok" THEN inflight (-) Awaiting(req) ELSE inflight
    /\ UNCHANGED <<build, apiKey, actionUsageStats, storedApiKey, storedStats, storageQueue>>

\* the remote call of executeAction ends; the listener replies
ExecuteDone(req, outcome) ==
    /\ BagIn(req, inflight)
    /\ req.type = "EXECUTE_ACTION"
    /\ response' = Response("execute", req, <<>>, outcome.kind = "ok",
                      IF outcome.kind = "ok" THEN "" ELSE outcome.kind, outcome)
    /\ inflight' = inflight (-) Awaiting(req)
    /\ UNCHANGED <<build, apiKey, actionUsageStats, storedApiKey, storedStats, storageQueue>>

\* an UPDATE_STATS handler that counts only while a key is configured
UpdateStatsKeyed(req) ==
    /\ IF Falsy(apiKey)
       THEN UNCHANGED <<actionUsageStats, storageQueue>>
       ELSE updateActionStats(req.actionId)
    /\ response' = Response("stats", req, <<>>, TRUE, "", NoOutcome)
    /\ UNCHANGED <<build, apiKey, storedApiKey, storedStats, inflight>>

\* onMessage, UPDATE_STATS
UpdateStats(req) ==
    /\ updateActionStats(req.actionId)
    /\ response' = Response("stats", req, <<>>, TRUE, "", NoOutcome)
    /\ UNCHANGED <<build, apiKey, storedApiKey, storedStats, inflight>>

Next ==
    \/ WorkerRestart /\ UNCHANGED pageVars
    \/ OnInstalled /\ UNCHANGED pageVars
    \/ StorageServe /\ UNCHANGED pageVars
    \/ SaveApiKey /\ UNCHANGED pageVars
    \/ ReplaceApiKey /\ UNCHANGED pageVars
    \/ RemoveApiKey /\ UNCHANGED pageVars
    \/ ResetStats /\ UNCHANGED pageVars
    \/ \E req \in TextRequests \cup ElementRequests : GetActions(req) /\ UNCHANGED pageVars
    \/ \E req \in BagToSet(inflight) : \E outcome \in SuggestOutcomes :
          SuggestDone(req, outcome) /\ UNCHANGED pageVars
    \/ \E req \in ExecuteRequests : ExecuteAction(req) /\ UNCHANGED pageVars
    \/ \E req \in BagToSet(inflight) : \E outcome \in ExecuteOutcomes :
          ExecuteDone(req, outcome) /\ UNCHANGED pageVars
    \/ \E req \in StatsRequests : UpdateStats(req) /\ UNCHANGED pageVars

Spec == Init /\ [][Next]_vars

----------------------------------------------------------------------------
(* The content script: its functions as operators on the page record       *)

\* a notification: the pieces of its textContent
ErrorNote(error) == <<"Error: ", error>>

\* the notifications of the analysis: timer, runtime.lastError, no actions
Note ==
    [timedOut |-> <<"Analysis timed out. Please try again.">>,
     extensionError |-> <<"Extension error. Please reload the page.">>,
     unableText |-> <<"Unable to analyze text. Please check your API key in settings.">>,
     unableElement |-> <<"Unable to analyze element. Please try selecting text instead.">>]

\* showNotification(message)
showNotification(c, note) == [c EXCEPT !.notifications = Append(@, note)]

\* hideActionPalette(): the palette loses sidekick-show and a timer is set
\* that removes whatever actionPalette holds when it fires; the mode is reset
\* whether or not there is a palette
hideActionPalette(c) ==
    [c EXCEPT !.actionPalette = IF @.kind = "none" THEN @ ELSE [@ EXCEPT !.show = FALSE],
              !.hideTimers = IF c.actionPalette.kind = "none" THEN @ ELSE @ + 1,
              !.clickAnalysisMode = FALSE,
              !.lastClickTarget = NoTarget]

\* hideResultPanel()
hideResultPanel(c) ==
    [c EXCEPT !.resultPanel = IF @.kind = "none" THEN @ ELSE [@ EXCEPT !.show = FALSE],
              !.panelTimers = IF c.resultPanel.kind = "none" THEN @ ELSE @ + 1]

\* showError(error)
showError(c, error) == hideActionPalette(showNotification(c, ErrorNote(error)))

\* showLoadingPalette(): hideActionPalette(), then a new loading palette
showLoadingPalette(c) == [hideActionPalette(c) EXCEPT !.actionPalette = LoadingPalette]

\* createActionPalette(actions): the palette in place is removed, a palette
\* of one button per action takes its place
createActionPalette(c, actions) ==
    [c EXCEPT !.actionPalette = ButtonPalette(actions, c.clickAnalysisMode)]

\* showLoadingState() and hideLoadingState()
showLoadingState(c) ==
    [c EXCEPT !.actionPalette = IF @.kind = "none" THEN @ ELSE [@ EXCEPT !.disabled = TRUE]]
hideLoadingState(c) ==
    [c EXCEPT !.actionPalette = IF @.kind = "none" THEN @ ELSE [@ EXCEPT !.disabled = FALSE]]

\* showResultPanel(result, action)
showResultPanel(c, action) ==
    [hideActionPalette(c) EXCEPT !.resultPanel = ResultPanel(action)]

\* handleTextSelection(event), the event outside the script's surfaces and
\* without a modifier key
handleTextSelection(c, text) ==
    IF text # NoText /\ text # c.selectedText
    THEN [c EXCEPT !.selectedText = text,
                   !.clickAnalysisMode = FALSE,
                   !.lastClickTarget = IF script = TimerScript THEN NoTarget ELSE @,
                   !.selectTimers = @ \cup {text}]
    ELSE IF text = NoText /\ ~c.isLoadingActions
         THEN hideActionPalette(c)
         ELSE c

\* handleSelectionChange()
handleSelectionChange(c, text) ==
    IF text = NoText /\ ~c.isLoadingActions /\ ~c.clickAnalysisMode
    THEN hideActionPalette([c EXCEPT !.selectedText = NoText])
    ELSE c

\* a handler of clicks that hides the palette and leaves the result panel
handleClickOutsidePaletteOnly(c) ==
    IF c.isLoadingActions \/ c.actionPalette.kind = "none" THEN c ELSE hideActionPalette(c)

\* handleClickOutside(event), the event outside the script's surfaces and
\* without a modifier key
handleClickOutside(c) ==
    IF c.isLoadingActions THEN c
    ELSE hideResultPanel(IF c.actionPalette.kind = "none" THEN c ELSE hideActionPalette(c))

\* handleElementClick / handleContextClick up to the call that shows the
\* palette: the selection is cleared and the clicked element kept
handleElementClick(c, element) ==
    [c EXCEPT !.selectedText = NoText,
              !.clickAnalysisMode = TRUE,
              !.lastClickTarget = element]

\* showActionPalette() and showElementActionPalette() / showElementPalette()
\* up to sendMessage
startLoading(c) ==
    showLoadingPalette(
        [c EXCEPT !.isLoadingActions = TRUE,
                  !.clickAnalysisMode = IF script = Script THEN FALSE ELSE @])
startElementLoading(c) == showLoadingPalette([c EXCEPT !.isLoadingActions = TRUE])

----------------------------------------------------------------------------
(* The content script: messages and callbacks                              *)

\* a sendMessage call whose callback has not run
\*   stage  sent      the message is on its way to the worker
\*          awaiting  the worker's handler awaits the completion service
\* and, as the callback sees it,
\*          replied   sendResponse was called with `reply`
\*          closed    the port closed with no reply: runtime.lastError is set
\*   timer  the 10-second timer of part_001: none, pending or fired
Call(token, req, timer) ==
    [token |-> token, req |-> req, stage |-> "sent", reply |-> NoResponse,
     timer |-> timer]

\* {type: 'GET_ACTIONS', context, selectedText, isElementAnalysis}
TextMessage(text) == Request("GET_ACTIONS", FALSE, text, PlainUrl, "", NoAction, "")
ElementMessage(element) ==
    Request(IF script = Script THEN "GET_ACTIONS" ELSE "GET_ELEMENT_ACTIONS",
            TRUE, NoText, PlainUrl, element, NoAction, "")

\* {type: 'EXECUTE_ACTION', action: action, text, context, ...}
ExecuteMessage(c, action) ==
    Request("EXECUTE_ACTION", c.clickAnalysisMode, c.selectedText, PlainUrl,
            c.lastClickTarget, action, "")

\* the surfaces and timers of the page stay within the bounds
Bounded(c) ==
    /\ c.hideTimers <= MaxTimers
    /\ c.panelTimers <= MaxTimers
    /\ Len(c.notifications) <= MaxNotes
    /\ c.sent <= MaxCalls

\* sendMessage(message, callback); part_001 sets its 10-second timer before
\* it sends a GET_ACTIONS or a GET_ELEMENT_ACTIONS
Send(c, req) ==
    /\ cs' = [c EXCEPT !.sent = @ + 1]
    /\ Bounded(cs')
    /\ calls' = calls \cup
          {Call(c.sent + 1, req,
                IF script = TimerScript /\ req.type # "EXECUTE_ACTION"
                THEN "pending" ELSE "none")}

\* selectionchange: the selection of the page becomes `text`
SelectionChange(text) ==
    /\ text # selection \/ text = NoText
    /\ selection' = text
    /\ cs' = handleSelectionChange(cs, text)
    /\ Bounded(cs')
    /\ UNCHANGED <<script, calls, workerVars>>

\* mouseup outside the script's surfaces, no modifier key
MouseUp ==
    /\ cs' = handleTextSelection(cs, selection)
    /\ Bounded(cs')
    /\ UNCHANGED <<script, selection, calls, workerVars>>

\* the 200 ms timer of handleTextSelection fires
SelectTimerFires(text) ==
    /\ text \in cs.selectTimers
    /\ IF selection = text
       THEN Send(startLoading([cs EXCEPT !.selectTimers = @ \ {text}]),
                 TextMessage(cs.selectedText))
       ELSE /\ cs' = [cs EXCEPT !.selectTimers = @ \ {text}]
            /\ UNCHANGED calls
    /\ UNCHANGED <<script, selection, workerVars>>

\* click with the Alt key on an element of the page: handleElementClick (or
\* handleContextClick), then handleClickOutside, which returns at once
ElementClick(element) ==
    /\ Send(startElementLoading(handleElementClick(cs, element)),
            ElementMessage(element))
    /\ selection' = NoText
    /\ UNCHANGED <<script, workerVars>>

\* click without a modifier key outside the script's surfaces
ClickOutside ==
    /\ cs' = handleClickOutside(cs)
    /\ Bounded(cs')
    /\ UNCHANGED <<script, selection, calls, workerVars>>

\* executeAction(action) goes past its first statements, which return when
\* there is neither a selected text nor an element to analyze
executeProceeds(c) ==
    IF script = Script
    THEN ~(c.selectedText = NoText /\ ~c.clickAnalysisMode)
    ELSE /\ ~(c.selectedText = NoText /\ ~c.clickAnalysisMode)
         /\ ~(c.lastClickTarget = NoTarget /\ c.clickAnalysisMode)

\* click on button i of the palette (the first, in the sessions explored):
\* executeAction(action)
ClickAction(i) ==
    /\ cs.actionPalette.kind = "actions"
    /\ ~cs.actionPalette.disabled
    /\ i \in DOMAIN cs.actionPalette.actions
    /\ IF executeProceeds(cs)
       THEN Send(showLoadingState(cs), ExecuteMessage(cs, cs.actionPalette.actions[i]))
       ELSE UNCHANGED <<cs, calls>>
    /\ UNCHANGED <<script, selection, workerVars>>

\* the callback of a GET_ACTIONS (GET_ELEMENT_ACTIONS) call
getActionsCallback(c, call) ==
    LET c1 == [c EXCEPT !.isLoadingActions = FALSE]
        rendered == createActionPalette([c1 EXCEPT !.currentActions = call.reply.actions],
                                        call.reply.actions)
    IN  IF script = Script
        THEN IF call.stage = "replied" /\ call.reply.type = "actions"
             THEN rendered
             ELSE hideActionPalette(c1)
        ELSE IF call.stage = "closed"
             THEN showNotification(hideActionPalette(c1), Note.extensionError)
             ELSE IF call.reply.type = "actions"
                  THEN rendered
                  ELSE showNotification(hideActionPalette(c1),
                           IF call.req.isElementAnalysis THEN Note.unableElement
                           ELSE Note.unableText)

\* a callback that shows a result panel whatever the reply says
executeCallbackAnyReply(c, call) == showResultPanel(hideLoadingState(c), call.req.action)

\* the callback of an EXECUTE_ACTION call
executeCallback(c, call) ==
    LET c1 == hideLoadingState(c)
    IN  IF call.stage = "replied" /\ call.reply.success
        THEN showResultPanel(c1, call.req.action)
        ELSE showError(c1, IF call.stage = "replied" THEN call.reply.error
                           ELSE "No response from extension")

\* a timer callback that clears the flag and the palette without a word
analysisTimeoutSilent(c) == hideActionPalette([c EXCEPT !.isLoadingActions = FALSE])

\* the 10-second timer of showActionPalette / showElementPalette fires
analysisTimeout(c) ==
    showNotification(hideActionPalette([c EXCEPT !.isLoadingActions = FALSE]), Note.timedOut)

IsGet(call) == call.req.type \in {"GET_ACTIONS", "GET_ELEMENT_ACTIONS"}

\* messages reach the worker in the order they were sent
NextSent(call) ==
    /\ call \in calls
    /\ call.stage = "sent"
    /\ \A other \in calls : other.stage = "sent" => other.token >= call.token

\* the callback of the call runs with the reply (clearTimeout goes with the
\* call); a reply reaches the page in the step in which it is sent
Answered(call, stage, reply) ==
    /\ LET seen == [call EXCEPT !.stage = stage, !.reply = reply]
       IN  cs' = IF IsGet(call) THEN getActionsCallback(cs, seen)
                 ELSE executeCallback(cs, seen)
    /\ Bounded(cs')
    /\ calls' = calls \ {call}

\* the worker's listener receives the message of the call; without a key it
\* replies at once
Handle(call) ==
    /\ NextSent(call)
    /\ IF call.req.type = "GET_ACTIONS"
       THEN GetActions(call.req)
       ELSE call.req.type = "EXECUTE_ACTION" /\ ExecuteAction(call.req)
    /\ IF Falsy(apiKey)
       THEN Answered(call, "replied", response')
       ELSE /\ calls' = (calls \ {call}) \cup {[call EXCEPT !.stage = "awaiting"]}
            /\ UNCHANGED cs
    /\ UNCHANGED <<script, selection>>

\* the completion service answers the worker, which calls sendResponse
Replies(call, outcome) ==
    /\ call \in calls
    /\ call.stage = "awaiting"
    /\ IF IsGet(call) THEN SuggestDone(call.req, outcome)
       ELSE ExecuteDone(call.req, outcome)
    /\ Answered(call, "replied", response')
    /\ UNCHANGED <<script, selection>>

\* no listener answers the message (none handles GET_ELEMENT_ACTIONS): the
\* port closes and the callback runs with runtime.lastError set
PortCloses(call) ==
    /\ NextSent(call)
    /\ Answered(call, "closed", NoResponse)
    /\ UNCHANGED <<script, selection, workerVars>>

\* the 10-second timer of a call fires before its callback ran
AnalysisTimeout(call) ==
    /\ call \in calls
    /\ call.timer = "pending"
    /\ cs' = analysisTimeout(cs)
    /\ Bounded(cs')
    /\ calls' = (calls \ {call}) \cup {[call EXCEPT !.timer = "fired"]}
    /\ UNCHANGED <<script, selection, workerVars>>

\* a 300 ms timer of hideActionPalette fires
HideTimerFires ==
    /\ cs.hideTimers > 0
    /\ cs' = [cs EXCEPT !.hideTimers = @ - 1, !.actionPalette = NoPalette]
    /\ UNCHANGED <<script, selection, calls, workerVars>>

\* a 300 ms timer of hideResultPanel fires
PanelTimerFires ==
    /\ cs.panelTimers > 0
    /\ cs' = [cs EXCEPT !.panelTimers = @ - 1, !.resultPanel = NoPanel]
    /\ UNCHANGED <<script, selection, calls, workerVars>>

\* the timers of showNotification remove the oldest notification
NotificationExpires ==
    /\ cs.notifications # <<>>
    /\ cs' = [cs EXCEPT !.notifications = Tail(@)]
    /\ UNCHANGED <<script, selection, calls, workerVars>>

\* what the completion service does with the calls of a page session
PageSuggestOutcomes == {Outcome("transport", <<>>), Outcome("array", RemoteFour)}

\* a page opened while the worker runs, with or without a stored key
InitPage ==
    /\ script \in {Script, TimerScript}
    /\ build = IF script = Script THEN Current ELSE Earlier
    /\ storedApiKey \in {Undefined, SavedKey}
    /\ apiKey = IF storedApiKey = Undefined THEN "" ELSE storedApiKey
    /\ actionUsageStats = NoStats
    /\ storedStats = NoStats
    /\ storageQueue = <<>>
    /\ inflight = EmptyBag
    /\ response = NoResponse
    /\ cs = InitialPage
    /\ selection = NoText
    /\ calls = {}

NextPage ==
    \/ \E text \in SampleTexts \cup {NoText} : SelectionChange(text)
    \/ MouseUp
    \/ \E text \in SampleTexts : SelectTimerFires(text)
    \/ \E element \in SampleElements : ElementClick(element)
    \/ ClickOutside
    \/ ClickAction(1)
    \/ \E call \in calls : Handle(call)
    \/ \E call \in calls : \E outcome \in PageSuggestOutcomes :
          IsGet(call) /\ Replies(call, outcome)
    \/ \E call \in calls : \E outcome \in ExecuteOutcomes :
          ~IsGet(call) /\ Replies(call, outcome)
    \/ \E call \in calls : PortCloses(call)
    \/ \E call \in calls : AnalysisTimeout(call)
    \/ HideTimerFires
    \/ PanelTimerFires
    \/ NotificationExpires
    \/ StorageServe /\ UNCHANGED pageVars

SpecPage == InitPage /\ [][NextPage]_vars

\* what runs by itself is not postponed for ever: the worker's listener, the
\* storage, the timers of the page. Nothing obliges the completion service to
\* answer, the port to close or the user to act.
SpecPageFair ==
    /\ SpecPage
    /\ WF_vars(\E call \in calls : Handle(call))
    /\ WF_vars(\E text \in SampleTexts : SelectTimerFires(text))
    /\ WF_vars(\E call \in calls : AnalysisTimeout(call))
    /\ WF_vars(HideTimerFires)
    /\ WF_vars(PanelTimerFires)
    /\ WF_vars(NotificationExpires)
    /\ WF_vars(StorageServe /\ UNCHANGED pageVars)

\* the page under the one assumption that its 300 ms timers fire
SpecPageTimers ==
    /\ SpecPage
    /\ WF_vars(HideTimerFires)
    /\ WF_vars(PanelTimerFires)

\* a page on which the reply to a first selection (other words) arrived after
\* a second selection was made and its GET_ACTIONS sent: the palette of the
\* first reply is on display, the message of the second is on its way
InitOverlap ==
    /\ script \in {Script, TimerScript}
    /\ build = IF script = Script THEN Current ELSE Earlier
    /\ storedApiKey \in {Undefined, SavedKey}
    /\ apiKey = IF storedApiKey = Undefined THEN "" ELSE storedApiKey
    /\ actionUsageStats = NoStats
    /\ storedStats = NoStats
    /\ storageQueue = <<>>
    /\ inflight = EmptyBag
    /\ selection = CodeText
    /\ LET first == TextMessage(PlainText)
           actions == IF Falsy(apiKey) THEN suggestWithoutKey(build, first, NoStats)
                      ELSE suggestFallback(build, first, NoStats)
       IN  /\ response = ActionsResponse(first, actions,
                             IF Falsy(apiKey) THEN NoOutcome
                             ELSE Outcome("transport", <<>>))
           /\ cs = [InitialPage EXCEPT !.selectedText = CodeText,
                                       !.actionPalette = ButtonPalette(actions, FALSE),
                                       !.currentActions = actions]
    /\ calls = {Call(0, TextMessage(CodeText),
                     IF script = TimerScript THEN "pending" ELSE "none")}

SpecOverlap == InitOverlap /\ [][NextPage]_vars

----------------------------------------------------------------------------
(* Ranking on its own: the earlier build ranks an accepted remote array   *)

RankIds == {"a", "b", "c", "d"}

RankEntries ==
    {[clicks |-> 0, lastUsed |-> "null"], [clicks |-> 2, lastUsed |-> IsoNow],
     [clicks |-> 5, lastUsed |-> IsoNow]}

RankUsages == UNION {[keys -> RankEntries] : keys \in SUBSET RankIds}

RankLists == {[i \in 1..4 |-> Act(ids[i], ids[i])] : ids \in [1..4 -> RankIds]}

RankRequest == Request("GET_ACTIONS", FALSE, PlainText, PlainUrl, "", NoAction, "")

\* a worker of the earlier build with a key, any statistics, one suggestion
\* call under way
InitRank ==
    /\ script = Script
    /\ cs = InitialPage
    /\ selection = NoText
    /\ calls = {}
    /\ build = Earlier
    /\ apiKey = SavedKey
    /\ storedApiKey = SavedKey
    /\ actionUsageStats \in RankUsages
    /\ storedStats = actionUsageStats
    /\ storageQueue = <<>>
    /\ inflight = Awaiting(RankRequest)
    /\ response = NoResponse

NextRank ==
    \E items \in RankLists :
        SuggestDone(RankRequest, Outcome("array", items)) /\ UNCHANGED pageVars

SpecRank == InitRank /\ [][NextRank]_vars

----------------------------------------------------------------------------
(* The heuristic suggesters on their own: a worker of either build answers *)
(* GET_ACTIONS, one message at a time, for every sample text on every      *)
(* sample page and for every element type, without a key or after a failed *)
(* remote call                                                             *)

NextSuggest ==
    \/ SaveApiKey /\ UNCHANGED pageVars
    \/ \E t \in Texts : \E u \in Urls :
          /\ inflight = EmptyBag
          /\ GetActions(Request("GET_ACTIONS", FALSE, t, u, "", NoAction, ""))
          /\ UNCHANGED pageVars
    \/ \E e \in ElementTypes :
          /\ inflight = EmptyBag
          /\ GetActions(Request("GET_ACTIONS", TRUE, <<>>, PlainUrl, e, NoAction, ""))
          /\ UNCHANGED pageVars
    \/ \E req \in BagToSet(inflight) :
          SuggestDone(req, Outcome("transport", <<>>)) /\ UNCHANGED pageVars

SpecSuggest == Init /\ [][NextSuggest]_vars

----------------------------------------------------------------------------
(* Vocabulary of the properties *)

\* out holds the items of in, each as often
IsPermutationOf(out, in) ==
    /\ Len(out) = Len(in)
    /\ \A i \in DOMAIN out :
          Cardinality({j \in DOMAIN out : out[j] = out[i]})
              = Cardinality({j \in DOMAIN in : in[j] = out[i]})

\* clicks never increase along the list
SortedByUsage(actions, stats) ==
    \A i, j \in DOMAIN actions :
        i < j => ClicksOf(stats, actions[i].id) >= ClicksOf(stats, actions[j].id)

\* out is in sorted by clicks, items of equal clicks in the order of in
StablySorted(out, in, stats) ==
    /\ Len(out) = Len(in)
    /\ SortedByUsage(out, stats)
    /\ \E f \in [DOMAIN out -> DOMAIN in] :
          /\ \A i, j \in DOMAIN out : i # j => f[i] # f[j]
          /\ \A i \in DOMAIN out : out[i] = in[f[i]]
          /\ \A i, j \in DOMAIN out :
                (i < j /\ ClicksOf(stats, out[i].id) = ClicksOf(stats, out[j].id))
                    => f[i] < f[j]

DistinctIds(actions) ==
    \A i, j \in DOMAIN actions : i # j => actions[i].id # actions[j].id

\* the quadruple the heuristic suggester of the build has for the content
HeuristicQuadruple(b, req) ==
    IF b = Current
    THEN IF req.isElementAnalysis
         THEN getElementFallbackActions(req.elementType)
         ELSE FallbackChoice(FallbackSignals(req.text, req.url))
    ELSE DefaultChoice(DefaultSignals(req.text, req.url))

\* every quadruple the worker holds in its own code
LocalQuadruples ==
    {getFallbackActions, getDefaultActions, FallbackCode, FallbackEmail,
     FallbackNumbers, FallbackList, FallbackLongText, FallbackGeneral,
     DefaultCode, DefaultEmail, DefaultList, DefaultNumbers, DefaultQuestion,
     DefaultLongText, DefaultGeneric}
        \cup {getElementFallbackActions(e) : e \in ElementTypes}

\* the remote call was made and did not yield an array of exactly 4
RemoteFailed(outcome) == outcome.kind # "none" /\ ~AcceptedArray(outcome)

GetRequests == TextRequests \cup ElementRequests

----------------------------------------------------------------------------
(* Properties *)

\* C1: every GET_ACTIONS response carries exactly 4 actions, whatever the
\* credential state and the outcome of the remote call, for text and element
\* requests.
C1_FourActions == response.type = "actions" => Len(response.actions) = 4

C1_Witness ==
    /\ response.type = "actions"
    /\ response.remote = Outcome("array", RemoteThree)
    /\ Len(response.actions) = 4

\* C2: with a credential, a remote suggestion that fails (transport, status,
\* unparsable, not an array of exactly 4) is answered with the heuristic
\* quadruple of the content, and the response carries no error.
C2_FailureFallsBack ==
    (response.type = "actions" /\ RemoteFailed(response.remote))
        => /\ IsPermutationOf(response.actions, HeuristicQuadruple(build, response.req))
           /\ response.error = ""
           /\ build = Current => response.actions = HeuristicQuadruple(build, response.req)

C2_Witness ==
    /\ response.type = "actions"
    /\ response.remote.kind = "unparsable"
    /\ response.req.text = CodeText
    /\ response.actions[1].id = "explain_code"

C4_NoKeyQuadrupleOfContentType ==
    (response.type = "actions" /\ response.remote = NoOutcome
        /\ ~response.req.isElementAnalysis)
        => IsPermutationOf(response.actions, HeuristicQuadruple(build, response.req))

\* C5: every list of a GET_ACTIONS response is ordered by non-increasing
\* clicks of its ids, missing ids counting 0, whatever its source.
C5_ResponsesRanked ==
    [][(response' # response /\ response'.type = "actions")
          => SortedByUsage(response'.actions, actionUsageStats')]_vars

\* C6: sortActionsByUsage returns a permutation of its input sorted by
\* descending clicks, absent ids counting 0, equal clicks in input order;
\* usage {a:5, b:2, c:0, d:0} over [c, d, a, b] yields [a, b, c, d].
C6_RankStable ==
    (response.type = "actions" /\ AcceptedArray(response.remote))
        => StablySorted(response.actions, response.remote.items, actionUsageStats)

ExampleUsage ==
    [k \in RankIds |->
        CASE k = "a" -> [clicks |-> 5, lastUsed |-> IsoNow]
          [] k = "b" -> [clicks |-> 2, lastUsed |-> IsoNow]
          [] OTHER -> [clicks |-> 0, lastUsed |-> "null"]]

C6_Witness ==
    /\ actionUsageStats = ExampleUsage
    /\ response.type = "actions"
    /\ ActionIds(response.remote.items) = <<"c", "d", "a", "b">>
    /\ ActionIds(response.actions) = <<"a", "b", "c", "d">>

\* C7: the ids of every list returned by getActions are pairwise distinct,
\* lists accepted from the remote suggester included.
C7_DistinctIds == response.type = "actions" => DistinctIds(response.actions)

\* C8: executeAction with no credential fails with the credential error,
\* makes no remote call and leaves the in-memory and the persisted statistics
\* unchanged.
C8_NoKeyExecuteRejected ==
    [][\A req \in ExecuteRequests :
          (Falsy(apiKey) /\ ExecuteAction(req))
              => /\ response'.type = "execute"
                 /\ response'.req = req
                 /\ ~response'.success
                 /\ response'.error = NoKeyError
                 /\ inflight' = inflight
                 /\ actionUsageStats' = actionUsageStats
                 /\ storedStats' = storedStats
                 /\ storageQueue' = storageQueue]_vars

C8_Witness ==
    /\ response.type = "execute"
    /\ response.error = NoKeyError
    /\ Falsy(apiKey)
    /\ storedStats # NoStats
    /\ inflight = EmptyBag

\* C9: an EXECUTE_ACTION carrying the whole action object, whose id is X,
\* adds exactly 1 to UsageStats[X].clicks, sets UsageStats[X].lastUsed and
\* leaves every other key as it was.
C9_ExecuteCountsUnderId ==
    [][\A req \in ExecuteRequests :
          (~Falsy(apiKey) /\ ExecuteAction(req))
              => /\ DOMAIN actionUsageStats' = DOMAIN actionUsageStats \cup {req.action.id}
                 /\ actionUsageStats'[req.action.id].clicks
                        = ClicksOf(actionUsageStats, req.action.id) + 1
                 /\ actionUsageStats'[req.action.id].lastUsed # "null"
                 /\ \A k \in DOMAIN actionUsageStats :
                        k # req.action.id => actionUsageStats'[k] = actionUsageStats[k]]_vars

\* C10: over any sequence of events of the worker of background.js the
\* persisted statistics never lose a key and no key's clicks decrease, except
\* by the options page's reset.
C10_PersistedStatsMonotonic ==
    [][build # Current
        \/ ResetStats
        \/ \A k \in DOMAIN storedStats :
              /\ k \in DOMAIN storedStats'
              /\ storedStats'[k].clicks >= storedStats[k].clicks]_vars

\* the worker holds the persisted credential: the same key, or none when the
\* store holds none
KeyInForce == IF Falsy(storedApiKey) THEN Falsy(apiKey) ELSE apiKey = storedApiKey

\* the worker's statistics hold at least every persisted click (they may be
\* ahead of the store by writes not yet applied)
StatsInForce ==
    \A k \in DOMAIN storedStats : ClicksOf(actionUsageStats, k) >= storedStats[k].clicks

\* C11: after every start of the worker, a restart without an install event
\* included, a GET_ACTIONS or EXECUTE_ACTION message is handled with the
\* persisted credential and the persisted statistics in memory.
C11_LoadedBeforeFirstMessage ==
    [][\A req \in GetRequests \cup ExecuteRequests :
          (GetActions(req) \/ ExecuteAction(req)) => (KeyInForce /\ StatsInForce)]_vars

CallbackRuns(call) == call \in calls /\ call \notin calls' /\ calls' \subseteq calls

\* no palette is on display: there is none, or it lost sidekick-show and a
\* timer is set to remove it
TornDown(c) ==
    \/ c.actionPalette.kind = "none"
    \/ ~c.actionPalette.show /\ c.hideTimers > 0

\* C13: when a second GetActions request was issued before the reply to the
\* first arrived, the reply to the first changes neither the palette nor
\* currentActions nor the loading flag, in whatever order the replies arrive.
C13_StaleReplyDropped ==
    [][\A call, later \in calls :
          (IsGet(call) /\ IsGet(later) /\ later.token > call.token /\ CallbackRuns(call))
              => /\ cs'.actionPalette = cs.actionPalette
                 /\ cs'.currentActions = cs.currentActions
                 /\ cs'.isLoadingActions = cs.isLoadingActions]_vars

\* C14: in the content script with the 10-second timer, once the timer of a
\* GetActions request has fired, the reply to that request renders no
\* palette: a page without a palette stays without one.
C14_LateReplyNotRendered ==
    [][\A call \in calls :
          (script = TimerScript /\ call.timer = "fired" /\ CallbackRuns(call)
              /\ TornDown(cs))
              => TornDown(cs')]_vars

\* C15: in the content script with the 10-second timer, the timeout of a
\* GetActions request and a callback that finds runtime.lastError each clear
\* the loading flag, tear down the palette and show exactly one notification.
C15_TimeoutOrTransportError ==
    [][\A call \in calls :
          /\ (script = TimerScript /\ IsGet(call) /\ AnalysisTimeout(call))
                => /\ ~cs'.isLoadingActions
                   /\ TornDown(cs')
                   /\ cs'.notifications = Append(cs.notifications, Note.timedOut)
          /\ (script = TimerScript /\ IsGet(call) /\ PortCloses(call))
                => /\ ~cs'.isLoadingActions
                   /\ TornDown(cs')
                   /\ cs'.notifications = Append(cs.notifications, Note.extensionError)]_vars

C15_Witness ==
    /\ script = TimerScript
    /\ cs.notifications = <<Note.timedOut>>
    /\ ~cs.isLoadingActions
    /\ TornDown(cs)
    /\ \E call \in calls : call.timer = "fired" /\ call.req.type = "GET_ACTIONS"

\* an EXECUTE_ACTION call whose callback has not run
Executing == \E call \in calls : ~IsGet(call)

\* C16: once the worker has passed an EXECUTE_ACTION on to the completion
\* service, the page eventually has no EXECUTE_ACTION outstanding, also when
\* the service never answers.
C16_ExecutionEnds ==
    (\E call \in calls : ~IsGet(call) /\ call.stage = "awaiting") ~> ~Executing

\* the worker fails the EXECUTE_ACTION of the call in this step: no key, or
\* the call to the completion service fails
ExecuteFails(call) ==
    \/ ~IsGet(call) /\ Falsy(apiKey) /\ Handle(call)
    \/ \E outcome \in ExecuteOutcomes :
          ~IsGet(call) /\ outcome.kind # "ok" /\ Replies(call, outcome)

\* C17: when the worker fails an EXECUTE_ACTION (no key, transport failure,
\* non-success status) the page receives {success: false, error}, shows one
\* notification that carries the error, tears down the palette and shows no
\* result panel.
C17_FailureShownAsError ==
    [][\A call \in calls :
          ExecuteFails(call)
              => /\ response'.type = "execute"
                 /\ ~response'.success
                 /\ response'.error # ""
                 /\ cs'.notifications =
                        Append(cs.notifications, ErrorNote(response'.error))
                 /\ TornDown(cs')
                 /\ cs'.resultPanel = cs.resultPanel]_vars

C17_Witness ==
    /\ cs.notifications = <<ErrorNote(NoKeyError)>>
    /\ response.type = "execute"
    /\ ~response.success
    /\ cs.actionPalette.kind = "actions"
    /\ ~cs.actionPalette.show
    /\ cs.resultPanel = NoPanel

\* the EXECUTE_ACTION requests among the calls to the completion service
ExecuteCalls(bag) ==
    LET reqs == {req \in BagToSet(bag) : req.type = "EXECUTE_ACTION"}
        Sum[S \in SUBSET reqs] ==
            IF S = {} THEN 0
            ELSE LET req == CHOOSE r \in S : TRUE
                 IN  CopiesIn(req, bag) + Sum[S \ {req}]
    IN  Sum[reqs]

\* C18: an EXECUTE_ACTION message leads to at most one call to the
\* completion service: a call is made only in the step that handles a
\* message, one per message; a failed call is followed by no other; the page
\* sends an EXECUTE_ACTION only on a click of a button.
C18_AtMostOneRemoteCall ==
    [][/\ ExecuteCalls(inflight') > ExecuteCalls(inflight)
          => /\ ExecuteCalls(inflight') = ExecuteCalls(inflight) + 1
             /\ \E call \in calls : ~IsGet(call) /\ Handle(call)
       /\ \A call \in calls : \A outcome \in ExecuteOutcomes :
             (~IsGet(call) /\ Replies(call, outcome))
                => /\ ExecuteCalls(inflight') = ExecuteCalls(inflight) - 1
                   /\ calls' = calls \ {call}
       /\ (\E call \in calls' \ calls : ~IsGet(call) /\ call.stage = "sent")
          => ClickAction(1)]_vars

C18_Witness ==
    /\ cs.notifications = <<ErrorNote("transport")>>
    /\ response.type = "execute"
    /\ ExecuteCalls(inflight) = 0
    /\ ~Executing

\* C19: a click on a button of a displayed palette sends an EXECUTE_ACTION
\* and disables the buttons, for a palette of a text selection and for the
\* palette of an Alt+clicked element: executeAction never returns early while
\* a palette with enabled buttons is on display.
C19_ClickAlwaysSends ==
    (cs.actionPalette.kind = "actions" /\ cs.actionPalette.show
        /\ ~cs.actionPalette.disabled)
        => executeProceeds(cs)

\* C20: while an EXECUTE_ACTION is outstanding, a change or loss of the
\* selection and a plain click outside the palette neither tear down the
\* palette nor clear the selected text.
C20_ExecutionKeepsPalette ==
    [][(Executing /\ (ClickOutside \/ MouseUp
                        \/ \E text \in SampleTexts \cup {NoText} : SelectionChange(text)))
          => /\ cs'.actionPalette = cs.actionPalette
             /\ cs'.selectedText = cs.selectedText]_vars

\* C21: at most one EXECUTE_ACTION of the page is outstanding at any time.
C21_OneExecutionOutstanding ==
    Cardinality({call \in calls : ~IsGet(call)}) <= 1

\* the type of the reply to a message
ReplyType(req) == IF req.type = "GET_ACTIONS" THEN "actions" ELSE "execute"

\* C22: the listener calls sendResponse exactly once for every GET_ACTIONS and
\* EXECUTE_ACTION it receives: the step that handles the message either
\* replies or leaves one handler awaiting the completion service; the step in
\* which an awaiting handler ends replies to its message, whatever the
\* outcome; no other step replies.
C22_RepliesExactlyOnce ==
    [][/\ \A req \in GetRequests \cup ExecuteRequests :
             (GetActions(req) \/ ExecuteAction(req))
                => \/ /\ inflight' = inflight
                      /\ response'.req = req
                      /\ response'.type = ReplyType(req)
                   \/ /\ inflight' = inflight (+) Awaiting(req)
                      /\ response' = response
       /\ \A req \in BagToSet(inflight) :
             CopiesIn(req, inflight') < CopiesIn(req, inflight)
                => /\ inflight' = inflight (-) Awaiting(req)
                   /\ response'.req = req
                   /\ response'.type = ReplyType(req)
       /\ (response' # response /\ response'.type \in {"actions", "execute"})
             => \/ BagCardinality(inflight') = BagCardinality(inflight) - 1
                \/ Falsy(apiKey) /\ inflight' = inflight]_vars

C22_Witness ==
    /\ build = Earlier
    /\ response.type = "actions"
    /\ response.remote.kind = "array"
    /\ ThrowsInSort(response.remote.items)
    /\ Len(response.actions) = 4
    /\ inflight = EmptyBag

\* C23: every list a heuristic suggester returns, for every content type of
\* text and of element, has exactly 4 actions with pairwise distinct ids.
C23_HeuristicsFourDistinct ==
    response.type = "actions"
        => Len(response.actions) = 4 /\ DistinctIds(response.actions)

C23_Witness ==
    /\ build = Current
    /\ response.type = "actions"
    /\ response.req.isElementAnalysis
    /\ response.req.elementType = "form"
    /\ response.remote.kind = "transport"
    /\ ActionIds(response.actions)
          = <<"explain_form", "validate_fields", "suggest_values", "extract_structure">>

\* the quadruple of the first condition of the list that holds, `generic` when
\* none does
FirstMatch(conditions, quadruples, generic) ==
    LET holding == {i \in DOMAIN conditions : conditions[i]}
    IN  IF holding = {} THEN generic
        ELSE quadruples[CHOOSE i \in holding : \A j \in holding : i <= j]

\* Code, Email, NumericData, List, LongText, Generic
FallbackPriority(sig) ==
    FirstMatch(<<sig.isCode, sig.isEmail, sig.hasNumbers, sig.isList, sig.isLongText>>,
               <<FallbackCode, FallbackEmail, FallbackNumbers, FallbackList, FallbackLongText>>,
               FallbackGeneral)

\* the order of the earlier build; numbers count in a text that is not long
DefaultPriority(sig) ==
    FirstMatch(<<sig.isCode, sig.isEmail, sig.isList, sig.hasNumbers /\ ~sig.isLongText,
                 sig.isQuestion, sig.isLongText>>,
               <<DefaultCode, DefaultEmail, DefaultList, DefaultNumbers,
                 DefaultQuestion, DefaultLongText>>,
               DefaultGeneric)

NoSignal(sig) == \A name \in DOMAIN sig : ~sig[name]

\* C29: the text heuristic suggester is total and the first match wins: for
\* every combination of the signals, and for every text it is applied to, it
\* returns the one quadruple its priority order selects (getSmartFallbackActions:
\* Code, Email, NumericData, List, LongText, Generic), Generic exactly when no
\* signal holds.
C29_FirstMatchWins ==
    /\ \A sig \in [isCode : BOOLEAN, isEmail : BOOLEAN, hasNumbers : BOOLEAN,
                    isList : BOOLEAN, isLongText : BOOLEAN] :
          /\ FallbackChoice(sig) = FallbackPriority(sig)
          /\ FallbackChoice(sig) = FallbackGeneral <=> NoSignal(sig)
    /\ \A sig \in [isCode : BOOLEAN, isEmail : BOOLEAN, hasNumbers : BOOLEAN,
                    isList : BOOLEAN, isLongText : BOOLEAN, isQuestion : BOOLEAN] :
          /\ DefaultChoice(sig) = DefaultPriority(sig)
          /\ DefaultChoice(sig) = DefaultGeneric <=> NoSignal(sig)
    /\ (response.type = "actions" /\ ~response.req.isElementAnalysis
           /\ build = Current /\ response.remote.kind = "transport")
          => response.actions
                = FallbackPriority(FallbackSignals(response.req.text, response.req.url))
    /\ (response.type = "actions" /\ build = Earlier)
          => response.actions
                = DefaultPriority(DefaultSignals(response.req.text, response.req.url))

C29_Witness ==
    /\ build = Current
    /\ response.type = "actions"
    /\ response.remote.kind = "transport"
    /\ response.req.text = CodeText
    /\ FallbackSignals(response.req.text, response.req.url).isCode
    /\ FallbackSignals(response.req.text, response.req.url).isEmail
    /\ response.actions = FallbackCode

\* C24: no GET_ACTIONS for a text selection is sent with an empty
\* selectedText, whatever the order of mouseup, selectionchange, the 200 ms
\* timer and Alt+clicks.
C24_NoEmptyTextRequest ==
    \A call \in calls :
        (call.req.type = "GET_ACTIONS" /\ ~call.req.isElementAnalysis)
            => call.req.text # NoText

\* the page shows no surface and waits for nothing
PageIdle ==
    /\ cs.actionPalette.kind = "none"
    /\ cs.resultPanel.kind = "none"
    /\ ~cs.isLoadingActions
    /\ cs.selectTimers = {}
    /\ calls = {}

\* C25: from Idle, a mouseup that leaves a non-empty selection starts the
\* settle timer whose expiry sends the GET_ACTIONS, also when the selection
\* equals the text of an earlier gesture whose palette was dismissed, timed
\* out or ended in an error.
C25_GestureStartsRequest ==
    (PageIdle /\ selection # NoText)
        => selection \in handleTextSelection(cs, selection).selectTimers

\* C26: an UPDATE_STATS message carrying an action id is answered with
\* {success: true} and adds exactly 1 to the clicks of that id, with or
\* without a configured key; no other id's entry changes.
C26_UpdateStatsCounts ==
    [][\A req \in StatsRequests :
          UpdateStats(req)
              => /\ response'.type = "stats"
                 /\ response'.req = req
                 /\ response'.success
                 /\ ClicksOf(actionUsageStats', req.actionId)
                        = ClicksOf(actionUsageStats, req.actionId) + 1
                 /\ \A k \in DOMAIN actionUsageStats :
                        k # req.actionId => actionUsageStats'[k] = actionUsageStats[k]]_vars

C26_Witness ==
    /\ response.type = "stats"
    /\ response.success
    /\ Falsy(apiKey)
    /\ ClicksOf(actionUsageStats, response.req.actionId) = MaxClicks

\* C27: once every storage write issued by updateActionStats has completed,
\* the persisted statistics equal the statistics in the worker's memory.
C27_PersistedEqualsMemory ==
    (\A i \in 1..Len(storageQueue) : storageQueue[i].op # "set")
        => storedStats = actionUsageStats

\* C28: the clicks of an id count the executions of it that succeeded and
\* the UPDATE_STATS messages for it: a click is added only in a step that
\* reports a successful execution or handles UPDATE_STATS (loading the
\* persisted statistics aside), so that a failed execution adds none.
C28_CountsOnlySuccesses ==
    [][(\E k \in DOMAIN actionUsageStats' :
            ClicksOf(actionUsageStats', k) > ClicksOf(actionUsageStats, k))
        => \/ \E req \in StatsRequests : UpdateStats(req)
           \/ /\ response' # response
              /\ response'.type = "execute"
              /\ response'.success
           \/ /\ StorageServe
              /\ Head(storageQueue).op = "get"]_vars

\* no request of the page is outstanding and no gesture is settling: the page
\* is neither Loading nor ExecutingAction
Quiet ==
    /\ calls = {}
    /\ ~cs.isLoadingActions
    /\ cs.selectTimers = {}

\* every surface there is has lost sidekick-show and awaits its removal
TearingDown(c) ==
    /\ TornDown(c)
    /\ \/ c.resultPanel.kind = "none"
       \/ ~c.resultPanel.show /\ c.panelTimers > 0

\* C30: with a palette or a result panel on display and the page neither
\* Loading nor ExecutingAction, a click outside the surfaces without a
\* modifier key takes sidekick-show from every surface and sets the timer that
\* removes it; the surfaces so dismissed are removed and the page is Idle,
\* unless a new gesture starts a request first.
C30_ClickOutsideLeadsToIdle ==
    /\ [](Quiet /\ (cs.actionPalette.kind # "none" \/ cs.resultPanel.kind # "none")
            => LET clicked == handleClickOutside(cs)
               IN  /\ TearingDown(clicked)
                   /\ ~clicked.isLoadingActions
                   /\ clicked.selectTimers = {})
    /\ (Quiet /\ TearingDown(cs)) ~> (PageIdle \/ ~Quiet)

C30_Witness ==
    /\ Quiet
    /\ cs.actionPalette.kind = "none"
    /\ cs.resultPanel.kind = "result"
    /\ ~cs.resultPanel.show
    /\ cs.panelTimers > 0

\* C31: an action palette (loading or with actions) and a result panel are
\* never on display at the same time.
C31_OneSurfaceAtATime ==
    ~(/\ cs.actionPalette.kind # "none" /\ cs.actionPalette.show
      /\ cs.resultPanel.kind # "none" /\ cs.resultPanel.show)

\* C32: the GET_ELEMENT_ACTIONS message a click with the modifier key sends
\* is handled by the worker's listener: when its callback runs, the worker has
\* answered it with a list of 4 actions.
C32_ElementRequestAnswered ==
    [][\A call \in calls :
          (call.req.type = "GET_ELEMENT_ACTIONS" /\ CallbackRuns(call))
              => /\ response'.type = "actions"
                 /\ response'.req = call.req
                 /\ Len(response'.actions) = 4]_vars

\* a GET_ACTIONS call as its callback sees it once the worker has answered
\* with the heuristic actions for its request
AnsweredHeuristically(call) ==
    [call EXCEPT !.stage = "replied",
                 !.reply = ActionsResponse(call.req,
                              suggestFallback(build, call.req, actionUsageStats),
                              Outcome("transport", <<>>))]

\* C33: a click with the modifier key while an earlier GET_ACTIONS is still
\* loading starts a request of its own, and once both requests are answered,
\* in whichever order, the palette on display is the one of the click's
\* request.
C33_ClickSupersedesLoading ==
    \A older, newer \in calls :
        (/\ IsGet(older) /\ IsGet(newer)
         /\ older.token < newer.token
         /\ newer.req.isElementAnalysis)
            => \A first \in {older, newer} :
                  LET second == IF first = older THEN newer ELSE older
                      after == getActionsCallback(
                                   getActionsCallback(cs, AnsweredHeuristically(first)),
                                   AnsweredHeuristically(second))
                  IN  /\ after.actionPalette.kind = "actions"
                      /\ after.actionPalette.actions
                             = AnsweredHeuristically(newer).reply.actions

\* C34: a removal timer set by hideActionPalette removes only the palette
\* that hideActionPalette took sidekick-show from, never a palette created
\* afterwards and on display.
C34_TimerSparesNewPalette ==
    [][HideTimerFires
          => ~(cs.actionPalette.kind # "none" /\ cs.actionPalette.show)]_vars

\* C35: isLoadingActions is true as long as the latest GET_ACTIONS request,
\* the last message the page sent, awaits its response and has not timed
\* out, also when the response to an earlier overlapping request has arrived.
C35_LoadingWhileLatestAwaited ==
    \A call \in calls :
        (IsGet(call) /\ call.token = cs.sent /\ call.timer # "fired")
            => cs.isLoadingActions

\* C36: in part_001 the 10-second timer of a request that a newer gesture
\* has superseded, firing while the newer request is outstanding, leaves the
\* palette and the loading flag of the newer request as they are.
C36_OldTimerSparesNewRequest ==
    [][\A call \in calls :
          (/\ AnalysisTimeout(call)
           /\ \E newer \in calls : IsGet(newer) /\ newer.token > call.token)
              => /\ cs'.isLoadingActions = cs.isLoadingActions
                 /\ cs'.actionPalette = cs.actionPalette]_vars

\* C37: after a reset of the statistics the counts from before it never
\* reappear: the persisted clicks of an id grow only by the increments made
\* since, one with each write applied.
C37_ResetCountsStayGone ==
    [][\A k \in DOMAIN storedStats' :
          storedStats'[k].clicks <= ClicksOf(storedStats, k) + 1]_vars

\* C38: the text of an EXECUTE_ACTION message equals the selected text of the
\* GET_ACTIONS request whose response produced the palette of the clicked
\* button (the worker's latest response, rendered in the step it was sent).
C38_ExecuteSendsPaletteText ==
    [][\A call \in calls' \ calls :
          (/\ call.req.type = "EXECUTE_ACTION"
           /\ response.type = "actions"
           /\ ~response.req.isElementAnalysis)
              => call.req.text = response.req.text]_vars

\* C39: a statistics update handled between the storage read of loadSettings
\* and its completion is not lost: when the read completes, the statistics in
\* memory still hold every click they held before.
C39_LoadKeepsIncrements ==
    [][(StorageServe /\ Head(storageQueue).op = "get")
          => \A k \in DOMAIN actionUsageStats :
                ClicksOf(actionUsageStats', k) >= actionUsageStats[k].clicks]_vars

====
